---------------------------- MODULE Spec2Model ----------------------------
(***************************************************************************)
(* Model of the Metis replayer (replay.c): the replay driver main(), the   *)
(* mount-lifecycle controller mountall()/unmount_all(), the record         *)
(* handlers and the payload generator.                                     *)
(*                                                                         *)
(* The environment (mount, umount2, fopen, getline, malloc and the         *)
(* filesystem primitives) is nondeterministic: every call the program      *)
(* makes can return any outcome the kernel may give it.                    *)
(***************************************************************************)
EXTENDS Integers, Sequences, FiniteSets, TLC

(***************************************************************************)
(* Bounds of the model.                                                    *)
(***************************************************************************)
\* umount2 calls followed inside one unmount_all call (the code itself has
\* no bound on them when the error is not EBUSY)
MaxAttempts == 21
\* log records read by the driver
MaxRecords == 3
\* values the uninitialised local failpos of mountall() is drawn from
MaxFailpos == 2
\* sequence positions and instance counts the handlers are run at
MaxHandlerSeq == 8
MaxNfs == 3
\* length of the lines handed to extract_fields on its own
MaxLineLen == 6
\* segments of the paths handed to mkdir_p on its own
MaxDepth == 3
\* buffer lengths and file offsets generate_data is run with on its own
MaxGenLen == 9
MaxGenOffset == 5

(***************************************************************************)
(* Program constants.                                                      *)
(***************************************************************************)
RetryLimit == 19
BaseWaitMs == 100
UsecPerMs == 1000
NumElements == 4
ByteRange == 256

\* one 16-bit limb; a 32-bit unsigned value is the pair <<hi, lo>> of limbs,
\* because 2^32 itself is outside the integers TLC computes with
Limb == 65536

VARIABLES
    pc,             \* position of the process in main()/unmount_all()
    exit_status,    \* status passed to exit() / returned by main (-1 before)
    signal,         \* signal that killed the process ("none" before)
    mounts,         \* mount sessions active on basepath
    mount_calls,    \* mount() calls so far
    mount_count,    \* of these, the ones that returned 0
    umount_count,   \* unmount_all calls that returned to the driver so far
    seq,            \* global int seq
    pre,            \* global int pre
    n_fs,           \* global unsigned int n_fs
    i,              \* main(): index into file_dir_array
    line,           \* main(): the line read, its newline removed
    len,            \* main(): what getline returned
    argvec,         \* main(): the fields of the line
    eof_next,       \* the line read was the last one (it had no newline)
    lines_read,     \* lines getline has returned so far
    call,           \* the last filesystem primitive invoked, with its result
    strict,         \* unmount_all(): parameter
    has_failure,    \* unmount_all(): local
    retry_limit,    \* unmount_all(): local
    num_retries,    \* unmount_all(): local
    ret,            \* unmount_all(): result of the last umount2
    errno,          \* errno left by the last umount2
    ret_to,         \* where unmount_all returns to
    attempts,       \* umount2 calls made by the current unmount_all call
    n_other,        \* of these, the ones that failed with an errno other than EBUSY
    sleeps,         \* arguments of the usleep calls of the current unmount_all call
    dirs,           \* the directories that exist, by path
    files,          \* the regular files that exist, by path
    before,         \* dirs and files as they were when the current run began
    run,            \* which run of the bootstrap over the same filesystem this is
    gen             \* generate_data(): its arguments and the bytes it wrote

procVars == <<exit_status, signal>>

mountVars == <<mounts, mount_calls, mount_count, umount_count>>

driverVars == <<seq, pre, n_fs, i>>

recordVars == <<line, len, argvec, eof_next, lines_read, call>>

unmountVars == <<strict, has_failure, retry_limit, num_retries, ret, errno,
                 ret_to, attempts, n_other, sleeps>>

fsVars == <<dirs, files, before, run>>

genVars == <<gen>>

vars == <<pc, procVars, mountVars, driverVars, recordVars, unmountVars,
          fsVars, genVars>>

(***************************************************************************)
(* 32-bit arithmetic of the backoff.                                       *)
(***************************************************************************)
RECURSIVE Shl1(_)
\* 1 << n in int
Shl1(n) == IF n = 0 THEN 1 ELSE 2 * Shl1(n - 1)

\* useconds_t waitms = 100 * (1 << num_retries)
WaitMs(n) == BaseWaitMs * Shl1(n)

\* the exact product 1000 * waitms as <<q, lo>>, q * 2^16 + lo, q unbounded
ExactUsec(waitms) ==
    LET wh == waitms \div Limb
        wl == waitms % Limb
    IN  <<UsecPerMs * wh + (UsecPerMs * wl) \div Limb, (UsecPerMs * wl) % Limb>>

\* 1000 * waitms as the program computes it, in unsigned int: mod 2^32
UsleepArg(waitms) ==
    LET e == ExactUsec(waitms) IN <<e[1] % Limb, e[2]>>

(***************************************************************************)
(* exit(), death by a signal, and the call into unmount_all.               *)
(***************************************************************************)
Exit(status) ==
    /\ pc' = "exit"
    /\ exit_status' = status
    /\ UNCHANGED signal

\* abort() of a failed assert, or the SIGSEGV of a NULL dereference
Killed(sig) ==
    /\ pc' = "killed"
    /\ signal' = sig
    /\ UNCHANGED exit_status

\* entry of unmount_all(strict): its locals are initialised
CallUnmountAll(s, back) ==
    /\ pc' = "umount_loop"
    /\ strict' = s
    /\ has_failure' = FALSE
    /\ retry_limit' = RetryLimit
    /\ num_retries' = 0
    /\ ret_to' = back
    /\ attempts' = 0
    /\ n_other' = 0
    /\ sleeps' = <<>>
    /\ UNCHANGED <<ret, errno>>

(***************************************************************************)
(* unmount_all: one action per outcome of umount2 in the retry loop.       *)
(***************************************************************************)
InRetryLoop ==
    /\ pc = "umount_loop"
    /\ retry_limit > 0
    /\ attempts < MaxAttempts

\* umount2 returned 0: break
Umount2Ok ==
    /\ InRetryLoop
    /\ mounts > 0
    /\ ret' = 0
    /\ mounts' = mounts - 1
    /\ attempts' = attempts + 1
    /\ pc' = "umount_end"
    /\ UNCHANGED <<procVars, mount_calls, mount_count, umount_count, driverVars,
                   recordVars, strict, has_failure, retry_limit, num_retries,
                   errno, ret_to, n_other, sleeps>>
    /\ UNCHANGED <<fsVars, genVars>>

\* umount2 failed with EBUSY: back off and retry
Umount2Busy ==
    /\ InRetryLoop
    /\ mounts > 0
    /\ ret' = -1
    /\ errno' = "EBUSY"
    /\ attempts' = attempts + 1
    /\ sleeps' = Append(sleeps, UsleepArg(WaitMs(num_retries)))
    /\ num_retries' = num_retries + 1
    /\ retry_limit' = retry_limit - 1
    /\ pc' = IF retry_limit - 1 > 0 THEN "umount_loop" ELSE "umount_end"
    /\ UNCHANGED <<procVars, mountVars, driverVars, recordVars, strict,
                   has_failure, ret_to, n_other>>
    /\ UNCHANGED <<fsVars, genVars>>

\* umount2 failed with another errno (EINVAL when nothing is mounted there)
Umount2Error ==
    /\ InRetryLoop
    /\ ret' = -1
    /\ errno' = (IF mounts > 0 THEN "EPERM" ELSE "EINVAL")
    /\ attempts' = attempts + 1
    /\ n_other' = n_other + 1
    /\ has_failure' = TRUE
    /\ UNCHANGED <<pc, procVars, mountVars, driverVars, recordVars, strict,
                   retry_limit, num_retries, ret_to, sleeps>>
    /\ UNCHANGED <<fsVars, genVars>>

\* the used-up budget not counted as a failure
FailureAtEndNoBudget == has_failure

\* after the loop: has_failure is also set when the budget is used up
FailureAtEnd == has_failure \/ retry_limit = 0

\* the test inverted: exit only when not strict
StrictExitInverted == FailureAtEnd /\ ~strict

\* if (has_failure && strict)
StrictExit == FailureAtEnd /\ strict

\* exit(1) at the end of unmount_all
UnmountAllExit ==
    /\ pc = "umount_end"
    /\ StrictExit
    /\ has_failure' = TRUE
    /\ Exit(1)
    /\ UNCHANGED <<mountVars, driverVars, recordVars, strict, retry_limit,
                   num_retries, ret, errno, ret_to, attempts, n_other, sleeps>>
    /\ UNCHANGED <<fsVars, genVars>>

\* unmount_all returns to its caller
UnmountAllReturn ==
    /\ pc = "umount_end"
    /\ ~StrictExit
    /\ has_failure' = FailureAtEnd
    /\ pc' = ret_to
    /\ umount_count' = umount_count + 1
    /\ UNCHANGED <<procVars, mounts, mount_calls, mount_count, driverVars, recordVars,
                   strict, retry_limit, num_retries, ret, errno, ret_to,
                   attempts, n_other, sleeps>>
    /\ UNCHANGED <<fsVars, genVars>>

(***************************************************************************)
(* mountall.                                                               *)
(***************************************************************************)
AtMountall == pc \in {"boot_mount", "rec_mount"}

\* mount() returned 0
MountallOk ==
    /\ AtMountall
    /\ mounts' = mounts + 1
    /\ mount_calls' = mount_calls + 1
    /\ mount_count' = mount_count + 1
    /\ pc' = IF pc = "boot_mount" THEN "bootstrap" ELSE "dispatch"
    /\ UNCHANGED <<procVars, umount_count, driverVars, recordVars, unmountVars>>
    /\ UNCHANGED <<fsVars, genVars>>

RECURSIVE UndoMounts(_, _)
\* the undo loop: failpos calls of umount2(basepath, MNT_FORCE), each of
\* which can only succeed while something is mounted
UndoMounts(n, m) ==
    IF n <= 0 THEN {m}
    ELSE UndoMounts(n - 1, m) \cup (IF m > 0 THEN UndoMounts(n - 1, m - 1) ELSE {})

\* mount() failed and mountall returns all the same
MountallFailReturns ==
    /\ AtMountall
    /\ mount_calls' = mount_calls + 1
    /\ pc' = IF pc = "boot_mount" THEN "bootstrap" ELSE "dispatch"
    /\ UNCHANGED <<procVars, mounts, mount_count, umount_count, driverVars,
                   recordVars, unmountVars>>
    /\ UNCHANGED <<fsVars, genVars>>

\* mount() failed: goto err, with failpos never initialised
MountallFail ==
    /\ AtMountall
    /\ mount_calls' = mount_calls + 1
    /\ \E failpos \in -1 .. MaxFailpos : mounts' \in UndoMounts(failpos, mounts)
    /\ Exit(1)
    /\ UNCHANGED <<mount_count, umount_count, driverVars, recordVars, unmountVars>>
    /\ UNCHANGED <<fsVars, genVars>>

(***************************************************************************)
(* Strings are sequences of characters. The operation names of main().     *)
(***************************************************************************)
NameCreateFile ==
    <<"c","r","e","a","t","e","_","f","i","l","e">>
NameWriteFile ==
    <<"w","r","i","t","e","_","f","i","l","e">>
NameTruncate ==
    <<"t","r","u","n","c","a","t","e">>
NameMkdir ==
    <<"m","k","d","i","r">>
NameRmdir ==
    <<"r","m","d","i","r">>
NameSymlink ==
    <<"s","y","m","l","i","n","k">>
NameLink ==
    <<"l","i","n","k">>
NameUnlink ==
    <<"u","n","l","i","n","k">>
NameChmod ==
    <<"c","h","m","o","d">>
NameChgrp ==
    <<"c","h","g","r","p","_","f","i","l","e">>
NameChown ==
    <<"c","h","o","w","n","_","f","i","l","e">>
NameRemovexattr ==
    <<"r","e","m","o","v","e","x","a","t","t","r">>
NameSetxattr ==
    <<"s","e","t","x","a","t","t","r">>

(***************************************************************************)
(* The lines getline can read from the operation log (without their        *)
(* newline).                                                               *)
(***************************************************************************)
\* write_file, /d-01/f-00, 02, 0, 4096, 4096
LineWriteScenario ==
    <<"w","r","i","t","e","_","f","i","l","e",","," ","/","d","-","0","1",
      "/","f","-","0","0",","," ","0","2",","," ","0",","," ","4","0","9",
      "6",","," ","4","0","9","6">>
\* write_file, /d-01/f-00, 02, 0, 3, 2
LineWriteSmall ==
    <<"w","r","i","t","e","_","f","i","l","e",","," ","/","d","-","0","1",
      "/","f","-","0","0",","," ","0","2",","," ","0",","," ","3",","," ",
      "2">>
\* write_file, /d-01/f-00, 02
LineWriteShort ==
    <<"w","r","i","t","e","_","f","i","l","e",","," ","/","d","-","0","1",
      "/","f","-","0","0",","," ","0","2">>
\* write_file, /f, 02, 0, 9223372036854775807, 1
LineWriteLongMax ==
    <<"w","r","i","t","e","_","f","i","l","e",","," ","/","f",","," ","0",
      "2",","," ","0",","," ","9","2","2","3","3","7","2","0","3","6","8",
      "5","4","7","7","5","8","0","7",","," ","1">>
\* write_file, /f, 02, 0, 0, 18446744073709551615
LineWriteULongMax ==
    <<"w","r","i","t","e","_","f","i","l","e",","," ","/","f",","," ","0",
      "2",","," ","0",","," ","0",","," ","1","8","4","4","6","7","4","4",
      "0","7","3","7","0","9","5","5","1","6","1","5">>
\* write_file, /f, 02, 0, x7, 2y
LineWriteBadNum ==
    <<"w","r","i","t","e","_","f","i","l","e",","," ","/","f",","," ","0",
      "2",","," ","0",","," ","x","7",","," ","2","y">>
\* create_file, /d-01/f-00, 0100, 0644
LineCreate ==
    <<"c","r","e","a","t","e","_","f","i","l","e",","," ","/","d","-","0",
      "1","/","f","-","0","0",","," ","0","1","0","0",","," ","0","6","4",
      "4">>
\* create_file, /f, 0100, rw
LineCreateBadMode ==
    <<"c","r","e","a","t","e","_","f","i","l","e",","," ","/","f",","," ",
      "0","1","0","0",","," ","r","w">>
\* truncate, /d-01/f-00, 12
LineTruncate ==
    <<"t","r","u","n","c","a","t","e",","," ","/","d","-","0","1","/","f",
      "-","0","0",","," ","1","2">>
\* mkdir,,  /d-02, 0755
LineMkdir ==
    <<"m","k","d","i","r",",",","," "," ","/","d","-","0","2",","," ","0",
      "7","5","5">>
\* mkdir, /d-02
LineMkdirShort ==
    <<"m","k","d","i","r",","," ","/","d","-","0","2">>
\* rmdir, /d-02
LineRmdir ==
    <<"r","m","d","i","r",","," ","/","d","-","0","2">>
\* symlink, /d-01/f-00, /s
LineSymlink ==
    <<"s","y","m","l","i","n","k",","," ","/","d","-","0","1","/","f","-",
      "0","0",","," ","/","s">>
\* link, /d-01/f-00, /l
LineLink ==
    <<"l","i","n","k",","," ","/","d","-","0","1","/","f","-","0","0",",",
      " ","/","l">>
\* unlink, /d-01/f-00
LineUnlink ==
    <<"u","n","l","i","n","k",","," ","/","d","-","0","1","/","f","-","0",
      "0">>
\* chmod, /d-01/f-00, 0600
LineChmod ==
    <<"c","h","m","o","d",","," ","/","d","-","0","1","/","f","-","0","0",
      ","," ","0","6","0","0">>
\* chgrp_file, /d-01/f-00, 100
LineChgrp ==
    <<"c","h","g","r","p","_","f","i","l","e",","," ","/","d","-","0","1",
      "/","f","-","0","0",","," ","1","0","0">>
\* chown_file, /d-01/f-00, 1000
LineChown ==
    <<"c","h","o","w","n","_","f","i","l","e",","," ","/","d","-","0","1",
      "/","f","-","0","0",","," ","1","0","0","0">>
\* removexattr, /f, user.a
LineRemovexattr ==
    <<"r","e","m","o","v","e","x","a","t","t","r",","," ","/","f",","," ",
      "u","s","e","r",".","a">>
\* setxattr, /f, user.a, v, 1, 0x1
LineSetxattr ==
    <<"s","e","t","x","a","t","t","r",","," ","/","f",","," ","u","s","e",
      "r",".","a",","," ","v",","," ","1",","," ","0","x","1">>
\* fsync, /d-01/f-00
LineUnknown ==
    <<"f","s","y","n","c",","," ","/","d","-","0","1","/","f","-","0","0">>
\* mk
LinePrefix ==
    <<"m","k">>
\* , ,
LineOnlyDelims ==
    <<","," ",",">>
\* (the empty line)
LineEmpty ==
    <<>>

\* every line above: the records a handler is run on
HandlerLines ==
    {LineWriteScenario,
     LineWriteSmall,
     LineWriteShort,
     LineWriteLongMax,
     LineWriteULongMax,
     LineWriteBadNum,
     LineCreate,
     LineCreateBadMode,
     LineTruncate,
     LineMkdir,
     LineMkdirShort,
     LineRmdir,
     LineSymlink,
     LineLink,
     LineUnlink,
     LineChmod,
     LineChgrp,
     LineChown,
     LineRemovexattr,
     LineSetxattr,
     LineUnknown,
     LinePrefix,
     LineOnlyDelims,
     LineEmpty}

\* the lines the log read by the driver is made of
LogLines ==
    {LineWriteSmall, LineWriteShort, LineWriteLongMax, LineMkdir, LineUnlink,
     LineUnknown, LinePrefix, LineOnlyDelims, LineEmpty}

(***************************************************************************)
(* extract_fields: strtok over the line.                                   *)
(***************************************************************************)
CommaSpace == {",", " "}

\* strtok skipping one delimiter at most
SkipDelimsOne(s, p, delim) ==
    IF p <= Len(s) /\ s[p] \in delim THEN p + 1 ELSE p

RECURSIVE SkipDelims(_, _, _)
\* strtok: the first position at or after p that holds no delimiter
SkipDelims(s, p, delim) ==
    IF p <= Len(s) /\ s[p] \in delim THEN SkipDelims(s, p + 1, delim) ELSE p

RECURSIVE TokenEnd(_, _, _)
\* strtok: the first position at or after p that holds a delimiter (or the end)
TokenEnd(s, p, delim) ==
    IF p <= Len(s) /\ s[p] \notin delim THEN TokenEnd(s, p + 1, delim) ELSE p

RECURSIVE StrtokFrom(_, _, _)
\* the tokens strtok returns from position p on; every call after the first
\* passes the literal ", "
StrtokFrom(s, p, delim) ==
    LET b == SkipDelims(s, p, delim)
        e == TokenEnd(s, b, delim)
    IN  IF b > Len(s) THEN <<>>
        ELSE <<SubSeq(s, b, e - 1)>> \o StrtokFrom(s, e + 1, CommaSpace)

\* the vector of field copies extract_fields leaves in fields_vec
extract_fields(text, delim) == StrtokFrom(text, 1, delim)

\* _vector_get(vec, index) == NULL
VectorGetIsNull(vec, index) == index < 0 \/ index >= Len(vec)

\* *vector_get(vec, char *, index)
VectorGet(vec, index) == vec[index + 1]

\* strncmp(a, b, n) == 0: the first n characters agree, the terminating NUL
\* of each string included
StrncmpEq(a, b, n) ==
    LET az == a \o <<"NUL">>
        bz == b \o <<"NUL">>
        m  == IF n < Len(az) THEN n ELSE Len(az)
    IN  /\ (n < Len(bz) => m = n) /\ (n >= Len(bz) => m = Len(bz))
        /\ SubSeq(az, 1, m) = SubSeq(bz, 1, m)

(***************************************************************************)
(* strtol / strtoul.  A long is an integer of the model when its magnitude *)
(* is below ValLimit; the values above are kept as classes, which is all   *)
(* the handlers look at: Big (below LONG_MAX), LongMax, BigU (between      *)
(* LONG_MAX and ULONG_MAX) and ULongMax.                                   *)
(***************************************************************************)
ValLimit == 1000000000
Big == ValLimit
LongMax == ValLimit + 1
BigU == ValLimit + 2
ULongMax == ValLimit + 3
LongMin == 0 - LongMax

DigitOf ==
    [c \in {"0","1","2","3","4","5","6","7","8","9",
            "a","b","c","d","e","f","A","B","C","D","E","F"} |->
        CASE c = "0" -> 0 [] c = "1" -> 1 [] c = "2" -> 2 [] c = "3" -> 3
          [] c = "4" -> 4 [] c = "5" -> 5 [] c = "6" -> 6 [] c = "7" -> 7
          [] c = "8" -> 8 [] c = "9" -> 9
          [] c \in {"a", "A"} -> 10 [] c \in {"b", "B"} -> 11
          [] c \in {"c", "C"} -> 12 [] c \in {"d", "D"} -> 13
          [] c \in {"e", "E"} -> 14 [] c \in {"f", "F"} -> 15]

IsDigitIn(c, base) == c \in DOMAIN DigitOf /\ DigitOf[c] < base

\* isspace
IsSpace(c) == c \in {" ", "\t", "\n", "\r"}

RECURSIVE SkipSpace(_, _)
SkipSpace(s, p) ==
    IF p <= Len(s) /\ IsSpace(s[p]) THEN SkipSpace(s, p + 1) ELSE p

RECURSIVE DigitRun(_, _, _)
\* the values of the longest run of base-digits of s that starts at p
DigitRun(s, p, base) ==
    IF p <= Len(s) /\ IsDigitIn(s[p], base)
    THEN <<DigitOf[s[p]]>> \o DigitRun(s, p + 1, base)
    ELSE <<>>

RECURSIVE StripZeros(_)
StripZeros(ds) ==
    IF Len(ds) > 0 /\ ds[1] = 0 THEN StripZeros(Tail(ds)) ELSE ds

RECURSIVE Rep(_, _)
Rep(d, n) == IF n = 0 THEN <<>> ELSE <<d>> \o Rep(d, n - 1)

\* the digits of LONG_MAX = 2^63 - 1 and of ULONG_MAX = 2^64 - 1
LongMaxDigits(base) ==
    CASE base = 8  -> Rep(7, 21)
      [] base = 10 -> <<9,2,2,3,3,7,2,0,3,6,8,5,4,7,7,5,8,0,7>>
      [] base = 16 -> <<7>> \o Rep(15, 15)

ULongMaxDigits(base) ==
    CASE base = 8  -> <<1>> \o Rep(7, 21)
      [] base = 10 -> <<1,8,4,4,6,7,4,4,0,7,3,7,0,9,5,5,1,6,1,5>>
      [] base = 16 -> Rep(15, 16)

RECURSIVE LexLess(_, _)
\* a < b for digit strings of one length
LexLess(a, b) ==
    /\ Len(a) > 0
    /\ \/ a[1] < b[1]
       \/ a[1] = b[1] /\ LexLess(Tail(a), Tail(b))

\* a < b for digit strings without leading zeros
NumLess(a, b) ==
    \/ Len(a) < Len(b)
    \/ Len(a) = Len(b) /\ LexLess(a, b)

RECURSIVE SmallValue(_, _, _)
\* the value of the digits, or ValLimit once it reaches ValLimit
SmallValue(ds, base, acc) ==
    IF Len(ds) = 0 THEN acc
    ELSE IF acc > (ValLimit - ds[1]) \div base THEN ValLimit
    ELSE SmallValue(Tail(ds), base, acc * base + ds[1])

\* the class of the digits ds (no leading zeros) whose value, cut at
\* ValLimit, is v
MagnitudeClass(ds, base, v) ==
    IF v < ValLimit THEN v
    ELSE IF NumLess(ds, LongMaxDigits(base)) THEN Big
    ELSE IF ds = LongMaxDigits(base) THEN LongMax
    ELSE IF NumLess(ds, ULongMaxDigits(base)) THEN BigU
    ELSE ULongMax

MagnitudeOf(ds, base) == MagnitudeClass(ds, base, SmallValue(ds, base, 0))

\* the magnitude of a digit string as a long/unsigned long class
Magnitude(ds0, base) == MagnitudeOf(StripZeros(ds0), base)

\* the digits, read in the base found, from position p2 on
NumeralDigits(s, neg, base, p2) ==
    [neg |-> neg, base |-> base, digits |-> DigitRun(s, p2, base)]

\* the base: the one asked for, or for 0 the one the prefix tells
NumeralBase(s, base0, neg, p1, hex) ==
    NumeralDigits(s, neg,
        IF base0 # 0 THEN base0
        ELSE IF hex THEN 16
        ELSE IF p1 <= Len(s) /\ s[p1] = "0" THEN 8
        ELSE 10,
        IF hex THEN p1 + 2 ELSE p1)

\* a 0x prefix is taken only with a hex digit after it
NumeralPrefix(s, base0, neg, p1) ==
    NumeralBase(s, base0, neg, p1,
        /\ base0 \in {0, 16}
        /\ p1 + 2 <= Len(s)
        /\ s[p1] = "0" /\ s[p1 + 1] \in {"x", "X"}
        /\ IsDigitIn(s[p1 + 2], 16))

\* the sign, at the first position p0 that holds no white space
NumeralSign(s, base0, p0) ==
    NumeralPrefix(s, base0, p0 <= Len(s) /\ s[p0] = "-",
        IF p0 <= Len(s) /\ s[p0] \in {"-", "+"} THEN p0 + 1 ELSE p0)

\* what strtol/strtoul read of s: the sign, the base and the digits
Numeral(s, base0) == NumeralSign(s, base0, SkipSpace(s, 1))

\* a long from its sign and magnitude, clamped to LONG_MIN..LONG_MAX
StrtolClamp(neg, m) ==
    IF m < ValLimit THEN (IF neg THEN 0 - m ELSE m)
    ELSE IF m = Big THEN (IF neg THEN 0 - Big ELSE Big)
    ELSE IF m = LongMax THEN (IF neg THEN 0 - Big ELSE LongMax)
    ELSE (IF neg THEN LongMin ELSE LongMax)

StrtolOf(n) == StrtolClamp(n.neg, Magnitude(n.digits, n.base))

\* strtol(s, &endp, base): 0 without digits, clamped to LONG_MIN..LONG_MAX
strtol(s, base0) == StrtolOf(Numeral(s, base0))

\* an unsigned long from its sign and magnitude
StrtoulWrap(neg, m) ==
    IF m = ULongMax THEN ULongMax
    ELSE IF ~neg THEN (IF m = LongMax THEN BigU ELSE m)
    ELSE IF m = 0 THEN 0
    ELSE IF m = 1 THEN ULongMax
    ELSE BigU

StrtoulOf(n) == StrtoulWrap(n.neg, Magnitude(n.digits, n.base))

\* strtoul(s, &endp, base): a negated value wraps, an overflow gives ULONG_MAX
strtoul(s, base0) == StrtoulOf(Numeral(s, base0))

\* atol(s) is strtol(s, NULL, 10)
atol(s) == strtol(s, 10)

\* (int) of a long: the low 32 bits; values below ValLimit fit
ToInt(v) ==
    IF v = LongMax THEN 0 - 1
    ELSE IF v = LongMin THEN 0
    ELSE v

\* (uid_t)/(gid_t) of an unsigned long: the low 32 bits
ToId(v) == IF v = ULongMax THEN 0 - 1 ELSE v

(***************************************************************************)
(* generate_data: the buffer as the sequence of its bytes.                 *)
(***************************************************************************)
\* memset(buffer, c, n): every byte is (unsigned char)c
Memset(c, n) == [k \in 1 .. n |-> c % ByteRange]

\* generate_data has not been called
NoGen == [type |-> "none"]

generate_data(length, offset, type, value) ==
    CASE type = "ONES"        -> Memset(1, length)
      [] type = "BYTE_REPEAT" -> Memset(value, length)

\* sizeof(int)
SizeofInt == 4

\* byte k of an int in memory, the low byte first
ByteOfInt(v, k) == (v \div (ByteRange ^ k)) % ByteRange

\* the smaller of two numbers: min(x, y)
Min(x, y) == IF x >= y THEN y ELSE x

\* PATTERN: every byte generate_data stores, by its index from the start
\* of the buffer: new_offset zero bytes, then len / sizeof(int) + 1 whole
\* ints, the i-th being offset / sizeof(int) + i
PatternWrites(length, offset) ==
    LET new_offset == 3 - (offset % SizeofInt)
        ints       == length \div SizeofInt + 1
    IN  [k \in 0 .. new_offset + SizeofInt * ints - 1 |->
            IF k < new_offset THEN 0
            ELSE ByteOfInt(offset \div SizeofInt + (k - new_offset) \div SizeofInt,
                           (k - new_offset) % SizeofInt)]

\* the four bytes *ptr = n stores at index at
IntAt(at, n) == [k \in at .. at + SizeofInt - 1 |-> ByteOfInt(n, k - at)]

\* g with the bytes of h stored over it
Stored(g, h) ==
    [k \in DOMAIN g \cup DOMAIN h |-> IF k \in DOMAIN h THEN h[k] ELSE g[k]]

RECURSIVE RandomWrites(_, _, _)
\* RANDOM_EACH_BYTE: the bytes the while loop stores from index at on, with
\* remaining bytes to go; i advances by the minimum taken after remaining
\* was reduced
RandomWrites(at, remaining, n) ==
    IF remaining <= 0 THEN <<>>
    ELSE LET left == remaining - Min(SizeofInt, remaining)
         IN  Stored(IntAt(at, n),
                    RandomWrites(at + Min(SizeofInt, left), left, n))

\* every byte generate_data stores, by its index from the start of buffer
GenerateWrites(length, offset, type, value) ==
    CASE type = "PATTERN"          -> PatternWrites(length, offset)
      [] type = "RANDOM_EACH_BYTE" -> RandomWrites(0, length, value)
      [] OTHER -> [k \in 0 .. length - 1 |->
                      generate_data(length, offset, type, value)[k + 1]]

(***************************************************************************)
(* The handlers.  Each gives the set of ways the call can end: the         *)
(* process is killed (a NULL field dereferenced, an assert failed), or one *)
(* filesystem primitive was invoked and returned.                          *)
(***************************************************************************)
Segv == [kind |-> "segv"]
Abort == [kind |-> "abort"]
Called(c) == [kind |-> "call", prim |-> c]

\* int results of the primitives: 0, or -1 with errno set
IntResults == {0, 0 - 1}

\* ssize_t results of write_file: -1, all of the data, or less than asked
WriteResults(length) ==
    {0 - 1, length} \cup (IF length > 1 THEN {length \div 2} ELSE {})

\* malloc(n) can return NULL for any n; a request of ValLimit bytes or more
\* is not followed further
MallocResults(n) == IF n < ValLimit THEN {"ptr", "NULL"} ELSE {"NULL"}

\* the instance count left out
IntegerToWriteNoInstances(s, n) == s

\* int integer_to_write = seq / n_fs
IntegerToWrite(s, n) == s \div n

do_create_file(av) ==
    IF VectorGetIsNull(av, 3) THEN {Segv}
    ELSE {Called([op |-> "create_file", path |-> VectorGet(av, 1),
                  flags |-> ToInt(strtol(VectorGet(av, 2), 8)),
                  mode |-> ToInt(strtol(VectorGet(av, 3), 8)),
                  result |-> r]) : r \in IntResults}

\* the offset read from field 3
WriteOffsetFieldThree(av) == VectorGet(av, 3)

\* char *offset_str = *vector_get(argvec, char *, 4)
WriteOffsetField(av) == VectorGet(av, 4)

\* char *len_str = *vector_get(argvec, char *, 5)
WriteLengthField(av) == VectorGet(av, 5)

do_write_file(av, s, n) ==
    IF VectorGetIsNull(av, 5) THEN {Segv}
    ELSE LET filepath == VectorGet(av, 1)
             flags    == ToInt(strtol(VectorGet(av, 2), 8))
             offset   == strtol(WriteOffsetField(av), 10)
             writelen == strtoul(WriteLengthField(av), 10)
         IN  IF offset = LongMax \/ writelen = ULongMax THEN {Abort}
             ELSE UNION {
                 IF m = "NULL" THEN {Abort}
                 ELSE {Called([op |-> "write_file", path |-> filepath,
                               flags |-> flags,
                               data |-> generate_data(writelen, offset,
                                            "BYTE_REPEAT", IntegerToWrite(s, n)),
                               offset |-> offset, length |-> writelen,
                               result |-> r]) : r \in WriteResults(writelen)}
                 : m \in MallocResults(writelen)}

do_truncate(av) ==
    IF VectorGetIsNull(av, 2) THEN {Segv}
    ELSE {Called([op |-> "truncate", path |-> VectorGet(av, 1),
                  length |-> atol(VectorGet(av, 2)),
                  result |-> r]) : r \in IntResults}

do_unlink(av) ==
    IF VectorGetIsNull(av, 1) THEN {Segv}
    ELSE {Called([op |-> "unlink", path |-> VectorGet(av, 1),
                  result |-> r]) : r \in IntResults}

do_symlink(av) ==
    IF VectorGetIsNull(av, 2) THEN {Segv}
    ELSE {Called([op |-> "symlink", path |-> VectorGet(av, 1),
                  path2 |-> VectorGet(av, 2),
                  result |-> r]) : r \in IntResults}

do_link(av) ==
    IF VectorGetIsNull(av, 2) THEN {Segv}
    ELSE {Called([op |-> "link", path |-> VectorGet(av, 1),
                  path2 |-> VectorGet(av, 2),
                  result |-> r]) : r \in IntResults}

do_mkdir(av) ==
    IF VectorGetIsNull(av, 2) THEN {Segv}
    ELSE {Called([op |-> "mkdir", path |-> VectorGet(av, 1),
                  mode |-> ToInt(strtol(VectorGet(av, 2), 8)),
                  result |-> r]) : r \in IntResults}

do_rmdir(av) ==
    IF VectorGetIsNull(av, 1) THEN {Segv}
    ELSE {Called([op |-> "rmdir", path |-> VectorGet(av, 1),
                  result |-> r]) : r \in IntResults}

do_setxattr(av) ==
    IF VectorGetIsNull(av, 5) THEN {Segv}
    ELSE {Called([op |-> "setxattr", path |-> VectorGet(av, 1),
                  name |-> VectorGet(av, 2), value |-> VectorGet(av, 3),
                  size |-> strtoul(VectorGet(av, 4), 10),
                  flags |-> ToInt(strtol(VectorGet(av, 5), 0)),
                  result |-> r]) : r \in IntResults}

do_removexattr(av) ==
    IF VectorGetIsNull(av, 2) THEN {Segv}
    ELSE {Called([op |-> "removexattr", path |-> VectorGet(av, 1),
                  name |-> VectorGet(av, 2),
                  result |-> r]) : r \in IntResults}

do_chown(av) ==
    IF VectorGetIsNull(av, 2) THEN {Segv}
    ELSE {Called([op |-> "chown", path |-> VectorGet(av, 1),
                  uid |-> ToId(strtoul(VectorGet(av, 2), 10)), gid |-> 0 - 1,
                  result |-> r]) : r \in IntResults}

do_chgrp(av) ==
    IF VectorGetIsNull(av, 2) THEN {Segv}
    ELSE {Called([op |-> "chown", path |-> VectorGet(av, 1),
                  uid |-> 0 - 1, gid |-> ToId(strtoul(VectorGet(av, 2), 10)),
                  result |-> r]) : r \in IntResults}

do_chmod(av) ==
    IF VectorGetIsNull(av, 2) THEN {Segv}
    ELSE {Called([op |-> "chmod", path |-> VectorGet(av, 1),
                  mode |-> ToInt(strtol(VectorGet(av, 2), 8)),
                  result |-> r]) : r \in IntResults}

(***************************************************************************)
(* The if / else-if chain of main().                                       *)
(***************************************************************************)
OpNames ==
    <<NameCreateFile, NameWriteFile, NameTruncate, NameMkdir, NameRmdir,
      NameSymlink, NameLink, NameUnlink, NameChmod, NameChgrp, NameChown,
      NameRemovexattr, NameSetxattr>>

\* the branches whose strncmp(funcname, name, len) == 0
Matching(funcname, n) ==
    {k \in DOMAIN OpNames : StrncmpEq(funcname, OpNames[k], n)}

\* the branch taken: the first that matches, 0 for the final else
Branch(funcname, n) ==
    LET m == Matching(funcname, n)
    IN  IF m = {} THEN 0 ELSE CHOOSE k \in m : \A j \in m : k <= j

\* what the handler of branch k can do
Handler(k, av, s, n) ==
    CASE k = 1  -> do_create_file(av)
      [] k = 2  -> do_write_file(av, s, n)
      [] k = 3  -> do_truncate(av)
      [] k = 4  -> do_mkdir(av)
      [] k = 5  -> do_rmdir(av)
      [] k = 6  -> do_symlink(av)
      [] k = 7  -> do_link(av)
      [] k = 8  -> do_unlink(av)
      [] k = 9  -> do_chmod(av)
      [] k = 10 -> do_chgrp(av)
      [] k = 11 -> do_chown(av)
      [] k = 12 -> do_removexattr(av)
      [] k = 13 -> do_setxattr(av)

(***************************************************************************)
(* The bootstrap of main().                                                *)
(***************************************************************************)
basepath ==
    <<"/","m","n","t","/","t","e","s","t","-","j","f","s","-","i","1","-",
      "s","0">>
PathD01 ==
    <<"/","d","-","0","1">>
PathD01F00 ==
    <<"/","d","-","0","1","/","f","-","0","0">>
PathD00D01 ==
    <<"/","d","-","0","0","/","d","-","0","1">>
PathD01D01 ==
    <<"/","d","-","0","1","/","d","-","0","1">>

file_dir_array == <<PathD01, PathD01F00, PathD00D01, PathD01D01>>

NoCall == [kind |-> "none"]

\* a primitive invoked by the driver, with the state it was invoked in
Invocation(kind, prim) ==
    [kind |-> kind, prim |-> prim, at_seq |-> seq, mounted |-> mounts,
     session |-> mount_count]

\* fopen failed and the process ends with status 0
OpenLogFailExitsZero ==
    /\ pc = "start"
    /\ Exit(0)
    /\ UNCHANGED <<mountVars, driverVars, recordVars, unmountVars>>
    /\ UNCHANGED <<fsVars, genVars>>

\* fopen failed: exit(1)
OpenLogFail ==
    /\ pc = "start"
    /\ Exit(1)
    /\ UNCHANGED <<mountVars, driverVars, recordVars, unmountVars>>
    /\ UNCHANGED <<fsVars, genVars>>

\* fopen succeeded: on to the first mountall()
OpenLogOk ==
    /\ pc = "start"
    /\ pc' = "boot_mount"
    /\ UNCHANGED <<procVars, mountVars, driverVars, recordVars, unmountVars>>
    /\ UNCHANGED <<fsVars, genVars>>

(***************************************************************************)
(* The filesystem as mkdir_p sees it: the set of paths that are            *)
(* directories and the set of paths that are regular files.  Modes are not *)
(* kept.  The root is the empty path and always a directory.               *)
(***************************************************************************)
\* PATH_MAX of <limits.h>, the size of _path
PathMax == 4096

\* the mount point and the directory it is in
BaseDirs == {SubSeq(basepath, 1, 4), basepath}

\* the position of the last '/' of a path
LastSlash(path) ==
    CHOOSE p \in 1 .. Len(path) :
        path[p] = "/" /\ \A q \in p + 1 .. Len(path) : path[q] # "/"

ParentOf(path) == SubSeq(path, 1, LastSlash(path) - 1)

IsDir(path, d) == path = <<>> \/ path \in d

\* what a system call gives: its result, errno if it failed, and the
\* filesystem it leaves
SysResult(r, e, d, f) == [ret |-> r, errno |-> e, dirs |-> d, files |-> f]

\* a call that found the parent of path missing or no directory
NoParent(path, d, f) ==
    SysResult(0 - 1, IF ParentOf(path) \in f THEN "ENOTDIR" ELSE "ENOENT", d, f)

\* mkdir(path, mode): EEXIST for a path that exists, whatever it is; a new
\* directory can fail to be made for want of space
mkdir(path, d, f) ==
    IF IsDir(path, d) \/ path \in f THEN {SysResult(0 - 1, "EEXIST", d, f)}
    ELSE IF ~IsDir(ParentOf(path), d) THEN {NoParent(path, d, f)}
    ELSE {SysResult(0, "0", d \cup {path}, f), SysResult(0 - 1, "ENOSPC", d, f)}

\* an existing file cannot be opened again
creatNoReopen(path, d, f) ==
    IF IsDir(path, d) THEN {SysResult(0 - 1, "EISDIR", d, f)}
    ELSE IF path \in f THEN {SysResult(0 - 1, "EACCES", d, f)}
    ELSE IF ~IsDir(ParentOf(path), d) THEN {NoParent(path, d, f)}
    ELSE {SysResult(3, "0", d, f \cup {path}), SysResult(0 - 1, "ENOSPC", d, f)}

\* creat(path, mode), that is open with O_CREAT | O_WRONLY | O_TRUNC: an
\* existing regular file is opened, a directory is refused, a new file can
\* fail to be made for want of space
creat(path, d, f) ==
    IF IsDir(path, d) THEN {SysResult(0 - 1, "EISDIR", d, f)}
    ELSE IF path \in f THEN {SysResult(3, "0", d, f)}
    ELSE IF ~IsDir(ParentOf(path), d) THEN {NoParent(path, d, f)}
    ELSE {SysResult(3, "0", d, f \cup {path}), SysResult(0 - 1, "ENOSPC", d, f)}

\* the character at position p of a C string, the NUL at its end included
CharAt(path, p) == IF p <= Len(path) THEN path[p] ELSE "NUL"

\* no errno is let through
EexistFatal(e) == FALSE

\* errno != EEXIST is the only failure mkdir_p gives up on
EexistIgnored(e) == e = "EEXIST"

\* errno after a call that left e0 if it succeeded
ErrnoAfter(o, e0) == IF o.ret < 0 THEN o.errno ELSE e0

\* the end of mkdir_p: if (next_d) mkdir(_path, dir_mode); return 0
MkdirPDir(path, d, f, e0, next_d) ==
    IF ~next_d THEN {SysResult(0, e0, d, f)}
    ELSE {IF o.ret # 0 /\ ~EexistIgnored(o.errno)
          THEN SysResult(0 - 1, o.errno, o.dirs, o.files)
          ELSE SysResult(0, ErrnoAfter(o, e0), o.dirs, o.files)
          : o \in mkdir(path, d, f)}

\* if (next_f) creat(_path, file_mode); then the next_d part
MkdirPFile(path, d, f, e0, next_f, next_d) ==
    IF ~next_f THEN MkdirPDir(path, d, f, e0, next_d)
    ELSE UNION {IF o.ret < 0 /\ ~EexistIgnored(o.errno)
                THEN {SysResult(0 - 1, o.errno, o.dirs, o.files)}
                ELSE MkdirPDir(path, o.dirs, o.files, ErrnoAfter(o, e0), next_d)
                : o \in creat(path, d, f)}

RECURSIVE MkdirPLoop(_, _, _, _, _, _, _)
\* for (p = _path + 1; *p; p++), from position p on (the first character
\* of the path is position 1)
MkdirPLoop(path, p, d, f, e0, next_f, next_d) ==
    IF CharAt(path, p) = "NUL" THEN MkdirPFile(path, d, f, e0, next_f, next_d)
    ELSE IF path[p] # "/" THEN MkdirPLoop(path, p + 1, d, f, e0, next_f, next_d)
    ELSE UNION {IF o.ret # 0 /\ ~EexistIgnored(o.errno)
                THEN {SysResult(0 - 1, o.errno, o.dirs, o.files)}
                ELSE MkdirPLoop(path, p + 1, o.dirs, o.files, ErrnoAfter(o, e0),
                         next_f \/ CharAt(path, p + 1) = "f",
                         next_d \/ (CharAt(path, p + 1) # "f"
                                      /\ CharAt(path, p + 1) = "d"))
                : o \in mkdir(SubSeq(path, 1, p - 1), d, f)}

\* mkdir_p(path, dir_mode, file_mode) on the filesystem <<d, f>>: the ways
\* it can end, each with its result, errno and the filesystem it leaves
mkdir_p(path, d, f) ==
    IF Len(path) > PathMax - 1 THEN {SysResult(0 - 1, "ENAMETOOLONG", d, f)}
    ELSE MkdirPLoop(path, 2, d, f, "0", FALSE, FALSE)

\* a filesystem just made: nothing below the mount point
InitFs ==
    /\ dirs = BaseDirs
    /\ files = {}
    /\ before = [dirs |-> BaseDirs, files |-> {}]

\* one turn of the bootstrap loop, mkdir_p returning 0
BootstrapStep ==
    /\ pc = "bootstrap"
    /\ i < NumElements
    /\ \E o \in mkdir_p(basepath \o file_dir_array[i + 1], dirs, files) :
          /\ o.ret = 0
          /\ call' = Invocation("bootstrap",
                         [op |-> "mkdir_p",
                          path |-> basepath \o file_dir_array[i + 1],
                          result |-> o.ret])
          /\ dirs' = o.dirs
          /\ files' = o.files
          /\ errno' = o.errno
    /\ pre' = pre + 1
    /\ i' = i + 1
    /\ UNCHANGED <<pc, procVars, mountVars, seq, n_fs, line, len, argvec,
                   eof_next, lines_read, strict, has_failure, retry_limit,
                   num_retries, ret, ret_to, attempts, n_other, sleeps,
                   before, run, genVars>>

\* mkdir_p returned -1: exit(EXIT_FAILURE)
BootstrapFail ==
    /\ pc = "bootstrap"
    /\ i < NumElements
    /\ \E o \in mkdir_p(basepath \o file_dir_array[i + 1], dirs, files) :
          /\ o.ret < 0
          /\ call' = Invocation("bootstrap",
                         [op |-> "mkdir_p",
                          path |-> basepath \o file_dir_array[i + 1],
                          result |-> o.ret])
          /\ dirs' = o.dirs
          /\ files' = o.files
          /\ errno' = o.errno
    /\ Exit(1)
    /\ UNCHANGED <<mountVars, driverVars, line, len, argvec, eof_next,
                   lines_read, strict, has_failure, retry_limit,
                   num_retries, ret, ret_to, attempts, n_other, sleeps,
                   before, run, genVars>>

\* the bootstrap loop is over and the unmount is left out
BootstrapNoUnmount ==
    /\ pc = "bootstrap"
    /\ i >= NumElements
    /\ pc' = "getline"
    /\ UNCHANGED <<procVars, mountVars, driverVars, recordVars, unmountVars>>
    /\ UNCHANGED <<fsVars, genVars>>

\* the bootstrap loop is over: unmount_all_strict()
BootstrapUnmount ==
    /\ pc = "bootstrap"
    /\ i >= NumElements
    /\ CallUnmountAll(TRUE, "getline")
    /\ UNCHANGED <<procVars, mountVars, driverVars, recordVars>>
    /\ UNCHANGED <<fsVars, genVars>>

(***************************************************************************)
(* The replay loop of main().                                              *)
(***************************************************************************)
\* the line as main() copies it: the newline at its end removed
StripNewline(linebuf) ==
    IF Len(linebuf) > 0 /\ linebuf[Len(linebuf)] = "\n"
    THEN SubSeq(linebuf, 1, Len(linebuf) - 1)
    ELSE linebuf

\* what getline can store in linebuf: a line of the log with its newline,
\* or the last line of a log that does not end in one
Linebufs ==
    {Append(t, "\n") : t \in LogLines} \cup {t \in LogLines : Len(t) > 0}

\* getline returned -1: fclose, free, return 0
GetlineEof ==
    /\ pc = "getline"
    /\ Exit(0)
    /\ UNCHANGED <<mountVars, driverVars, recordVars, unmountVars>>
    /\ UNCHANGED <<fsVars, genVars>>

\* the fields of the line just read
ReadLine(linebuf) ==
    /\ len' = Len(linebuf)
    /\ line' = StripNewline(linebuf)
    /\ argvec' = extract_fields(StripNewline(linebuf), CommaSpace)
    /\ eof_next' = (linebuf[Len(linebuf)] # "\n")
    /\ lines_read' = lines_read + 1
    /\ call' = NoCall

CanRead ==
    /\ pc = "getline"
    /\ ~eof_next
    /\ seq < MaxRecords

\* getline read a line with at least one field
GetlineRecord ==
    /\ CanRead
    /\ \E linebuf \in Linebufs :
          /\ ReadLine(linebuf)
          /\ ~VectorGetIsNull(argvec', 0)
    /\ pc' = "rec_mount"
    /\ UNCHANGED <<procVars, mountVars, driverVars, unmountVars>>
    /\ UNCHANGED <<fsVars, genVars>>

\* getline read a line without fields: funcname = *NULL
GetlineNoFields ==
    /\ CanRead
    /\ \E linebuf \in Linebufs :
          /\ ReadLine(linebuf)
          /\ VectorGetIsNull(argvec', 0)
    /\ Killed("SIGSEGV")
    /\ UNCHANGED <<mountVars, driverVars, unmountVars>>
    /\ UNCHANGED <<fsVars, genVars>>

\* seq left as it is
NextSeqNone(s) == s

\* seq advanced twice
NextSeqTwice(s) == s + 2

\* seq++
NextSeq(s) == s + 1

\* the branch of the chain the current record takes
CurrentBranch == Branch(VectorGet(argvec, 0), len)

\* a failed primitive ends the process
DispatchCallFatal ==
    /\ pc = "dispatch"
    /\ CurrentBranch # 0
    /\ \E o \in Handler(CurrentBranch, argvec, seq, n_fs) :
          /\ o.kind = "call"
          /\ call' = Invocation("record", o.prim)
          /\ IF o.prim.result < 0
             THEN /\ Exit(1)
                  /\ UNCHANGED <<seq, unmountVars>>
             ELSE /\ seq' = NextSeq(seq)
                  /\ CallUnmountAll(TRUE, "rec_free")
                  /\ UNCHANGED procVars
    /\ UNCHANGED <<mountVars, pre, n_fs, i, line, len, argvec,
                   eof_next, lines_read>>
    /\ UNCHANGED <<fsVars, genVars>>

\* the handler invoked its primitive and returned; seq++; unmount_all_strict()
DispatchCall ==
    /\ pc = "dispatch"
    /\ CurrentBranch # 0
    /\ \E o \in Handler(CurrentBranch, argvec, seq, n_fs) :
          /\ o.kind = "call"
          /\ call' = Invocation("record", o.prim)
    /\ seq' = NextSeq(seq)
    /\ CallUnmountAll(TRUE, "rec_free")
    /\ UNCHANGED <<procVars, mountVars, pre, n_fs, i, line, len, argvec,
                   eof_next, lines_read>>
    /\ UNCHANGED <<fsVars, genVars>>

\* the final else: "Unrecognized op"; seq++; unmount_all_strict()
DispatchUnrecognized ==
    /\ pc = "dispatch"
    /\ CurrentBranch = 0
    /\ call' = [kind |-> "unrecognized"]
    /\ seq' = NextSeq(seq)
    /\ CallUnmountAll(TRUE, "rec_free")
    /\ UNCHANGED <<procVars, mountVars, pre, n_fs, i, line, len, argvec,
                   eof_next, lines_read>>
    /\ UNCHANGED <<fsVars, genVars>>

\* the handler dereferenced the NULL of a missing field
DispatchSegv ==
    /\ pc = "dispatch"
    /\ CurrentBranch # 0
    /\ Segv \in Handler(CurrentBranch, argvec, seq, n_fs)
    /\ Killed("SIGSEGV")
    /\ UNCHANGED <<mountVars, driverVars, recordVars, unmountVars>>
    /\ UNCHANGED <<fsVars, genVars>>

\* an assert of the handler failed
DispatchAbort ==
    /\ pc = "dispatch"
    /\ CurrentBranch # 0
    /\ Abort \in Handler(CurrentBranch, argvec, seq, n_fs)
    /\ Killed("SIGABRT")
    /\ UNCHANGED <<mountVars, driverVars, recordVars, unmountVars>>
    /\ UNCHANGED <<fsVars, genVars>>

\* errno = 0; free(line); destroy_fields(&argvec)
RecordRelease ==
    /\ pc = "rec_free"
    /\ errno' = "0"
    /\ line' = <<>>
    /\ argvec' = <<>>
    /\ pc' = "getline"
    /\ UNCHANGED <<procVars, mountVars, driverVars, len, eof_next,
                   lines_read, call,
                   strict, has_failure, retry_limit, num_retries, ret, ret_to,
                   attempts, n_other, sleeps>>
    /\ UNCHANGED <<fsVars, genVars>>

(***************************************************************************)
(* The program: main() from its first statement.                           *)
(***************************************************************************)
InitLocals ==
    /\ exit_status = 0 - 1
    /\ signal = "none"
    /\ mount_calls = 0
    /\ mount_count = 0
    /\ umount_count = 0
    /\ pre = 0
    /\ i = 0
    /\ eof_next = FALSE
    /\ lines_read = 0
    /\ call = NoCall
    /\ has_failure = FALSE
    /\ num_retries = 0
    /\ ret = 0
    /\ errno = "0"
    /\ attempts = 0
    /\ n_other = 0
    /\ sleeps = <<>>
    /\ run = 1
    /\ gen = NoGen

Init ==
    /\ InitLocals
    /\ InitFs
    /\ pc = "start"
    /\ mounts = 0
    /\ seq = 0
    /\ n_fs = 1
    /\ line = <<>>
    /\ len = 0
    /\ argvec = <<>>
    /\ strict = FALSE
    /\ retry_limit = 0
    /\ ret_to = "none"

UnmountNext ==
    \/ Umount2Ok
    \/ Umount2Busy
    \/ Umount2Error
    \/ UnmountAllExit
    \/ UnmountAllReturn

Next ==
    \/ OpenLogFail
    \/ OpenLogOk
    \/ MountallOk
    \/ MountallFail
    \/ BootstrapStep
    \/ BootstrapFail
    \/ BootstrapUnmount
    \/ GetlineEof
    \/ GetlineRecord
    \/ GetlineNoFields
    \/ DispatchCall
    \/ DispatchUnrecognized
    \/ DispatchSegv
    \/ DispatchAbort
    \/ RecordRelease
    \/ Umount2Ok
    \/ Umount2Busy
    \/ Umount2Error
    \/ UnmountAllExit
    \/ UnmountAllReturn

Spec == Init /\ [][Next]_vars

(***************************************************************************)
(* unmount_all on its own: called as unmount_all_strict() or as            *)
(* unmount_all_relaxed(), with the filesystem mounted or not.              *)
(***************************************************************************)
InitUnmount ==
    /\ InitLocals
    /\ InitFs
    /\ pc = "umount_loop"
    /\ mounts \in {0, 1}
    /\ seq = 0
    /\ n_fs = 1
    /\ line = <<>>
    /\ len = 0
    /\ argvec = <<>>
    /\ strict \in BOOLEAN
    /\ retry_limit = RetryLimit
    /\ ret_to = "caller"

SpecUnmount == InitUnmount /\ [][UnmountNext]_vars

(***************************************************************************)
(* One record handled on its own: any line of the log at any sequence      *)
(* position, for any instance count.                                       *)
(***************************************************************************)
\* the sequence positions: the first ones, and the ones around the first
\* fill value that does not fit a byte
HandlerSeqs ==
    (0 .. MaxHandlerSeq) \cup (ByteRange - 1 .. ByteRange + MaxHandlerSeq)

InitHandler ==
    /\ InitLocals
    /\ InitFs
    /\ pc = "dispatch"
    /\ mounts = 1
    /\ seq \in HandlerSeqs
    /\ n_fs \in 1 .. MaxNfs
    /\ \E t \in HandlerLines :
          /\ line = t
          /\ len = Len(t) + 1
          /\ argvec = extract_fields(t, CommaSpace)
          /\ ~VectorGetIsNull(argvec, 0)
    /\ strict = FALSE
    /\ retry_limit = 0
    /\ ret_to = "none"

HandlerNext ==
    \/ DispatchCall
    \/ DispatchUnrecognized
    \/ DispatchSegv
    \/ DispatchAbort

SpecHandler == InitHandler /\ [][HandlerNext]_vars

(***************************************************************************)
(* Properties.                                                             *)
(***************************************************************************)
\* unmount_all has returned to the replay loop and the next record is due
BetweenRecords == pc \in {"rec_free", "getline"}

\* C1: at most one mount session is active in every reachable state, and
\* mountall() is only issued (for the bootstrap and for every record) while
\* the filesystem is unmounted: a strict unmount_all that came back to the
\* driver ended on a umount2 that returned 0.
C1_SingleMountSession ==
    /\ mounts <= 1
    /\ AtMountall => mounts = 0
    /\ BetweenRecords => (ret = 0 /\ mounts = 0)

\* a second mount session is open, after the first one was closed
C1_Witness ==
    /\ pc = "dispatch"
    /\ mount_count = 2
    /\ umount_count = 1
    /\ mounts = 1

\* C2: a record's primitive runs only while the filesystem is mounted, in a
\* mount session of its own (the record at position s runs in session s + 2,
\* the one opened by the one mountall() before it) that one unmount_all
\* closes before the next record; the bootstrap mkdir_p calls all run in
\* session 1, before any line of the log is read.
C2_MountBracketing ==
    /\ pc = "dispatch" =>
          /\ mounts = 1
          /\ mount_count = seq + 2
          /\ umount_count = seq + 1
    /\ call.kind = "record" =>
          /\ call.mounted = 1
          /\ call.session = call.at_seq + 2
          /\ mount_count = call.session
    /\ call.kind = "bootstrap" =>
          /\ call.mounted = 1
          /\ call.session = 1
          /\ mount_count = 1
          /\ lines_read = 0
    /\ BetweenRecords =>
          /\ mounts = 0
          /\ umount_count = mount_count
          /\ mount_count = lines_read + 1

\* the second record's primitive has run and its session has been closed
C2_Witness ==
    /\ pc = "rec_free"
    /\ call.kind = "record"
    /\ call.at_seq = 1
    /\ call.session = 3
    /\ umount_count = 3

\* C3: unmount_all issues at most 19 umount2 attempts in one call, whatever
\* the outcomes of umount2 are, and then returns or exits.
C3_AtMost19Attempts == attempts <= RetryLimit

\* the call is over: it returned to its caller or ended the process
UnmountAllOver == pc \in {"caller", "exit"}

\* C4: when umount2 fails with EBUSY k times and then succeeds (k < 19),
\* unmount_all makes k + 1 attempts and returns without a failure, also in
\* strict mode; when it fails with EBUSY 19 times, unmount_all makes 19
\* attempts, reports the failure, and exits with status 1 if strict and
\* returns if not.
C4_BusyRetries ==
    (UnmountAllOver /\ n_other = 0) =>
        IF ret = 0
        THEN /\ num_retries < 19
             /\ attempts = num_retries + 1
             /\ pc = "caller"
             /\ ~has_failure
             /\ exit_status = 0 - 1
        ELSE /\ num_retries = 19
             /\ attempts = 19
             /\ has_failure
             /\ strict => (pc = "exit" /\ exit_status = 1)
             /\ ~strict => (pc = "caller" /\ exit_status = 0 - 1)

\* 19 EBUSY failures in relaxed mode: the failure is reported, the call returns
C4_Witness ==
    /\ pc = "caller"
    /\ ~strict
    /\ n_other = 0
    /\ num_retries = 19
    /\ attempts = 19
    /\ has_failure

\* C5: after a umount2 failure with an errno other than EBUSY no further
\* umount2 attempt is made in that call: that failure is the only one of its
\* kind and the last thing umount2 returned.
C5_NoRetryAfterOtherError ==
    n_other >= 1 =>
        /\ n_other = 1
        /\ ret = 0 - 1
        /\ errno # "EBUSY"

RECURSIVE SumUsec(_)
\* the sum of microsecond values <<q, lo>>, q unbounded
SumUsec(ws) ==
    IF Len(ws) = 0 THEN <<0, 0>>
    ELSE LET r == SumUsec(Tail(ws))
             lo == ws[1][2] + r[2]
         IN  <<ws[1][1] + r[1] + lo \div Limb, lo % Limb>>

\* C6: the wait requested after the n-th EBUSY failure (n from 0) is
\* 100 * 2^n ms, passed to usleep as 1000 * waitms without wrap-around, for
\* every n in 0..18; after k EBUSY failures followed by success the waits
\* add up to 100 * (2^k - 1) ms.
C6_BackoffWaits ==
    /\ \A n \in 1 .. Len(sleeps) : sleeps[n] = ExactUsec(WaitMs(n - 1))
    /\ (pc = "caller" /\ ret = 0 /\ n_other = 0) =>
          SumUsec(sleeps) = ExactUsec(BaseWaitMs * (Shl1(num_retries) - 1))

\* C7: a failed mount ends the process with a non-zero exit status, with no
\* bootstrap step or record handler run after it; the driver is past
\* mountall() only when every mount() so far returned 0.
C7_MountFailureFatal ==
    /\ mount_calls > mount_count =>
          /\ pc = "exit"
          /\ exit_status = 1
          /\ mount_calls = mount_count + 1
          /\ call.kind \in {"record", "bootstrap"} => call.session = mount_count
    /\ pc \in {"bootstrap", "dispatch"} =>
          /\ mount_calls = mount_count
          /\ mounts >= 1

\* the mount for a record failed after the bootstrap session succeeded
C7_Witness ==
    /\ mount_calls = 2
    /\ mount_count = 1
    /\ pc = "exit"
    /\ lines_read = 1

\* what C8 says of each state: seq is 0 up to the end of the bootstrap, the
\* record being handled (the lines_read-th) is handed seq = lines_read - 1,
\* and once handled seq = lines_read
C8_SeqCountsRecords ==
    /\ pc \in {"start", "boot_mount", "bootstrap"} => seq = 0
    /\ call.kind = "bootstrap" => (seq = 0 /\ call.at_seq = 0)
    /\ pc \in {"rec_mount", "dispatch"} => seq = lines_read - 1
    /\ call.kind \in {"record", "unrecognized"} => seq = lines_read
    /\ call.kind = "record" => call.at_seq = lines_read - 1
    /\ BetweenRecords => seq = lines_read

\* C8: seq starts at 0, the bootstrap leaves it alone, it never decreases
\* and grows by exactly 1 per record handled (primitive succeeded, failed, or
\* name unrecognized): the i-th record's handler sees seq = i, and after n
\* records seq = n.
C8_SeqMonotonic ==
    /\ []C8_SeqCountsRecords
    /\ [][seq' \in {seq, seq + 1}]_vars

\* two records handled, the second one's primitive having failed
C8_Witness ==
    /\ pc = "getline"
    /\ seq = 2
    /\ call.kind = "record"
    /\ call.at_seq = 1
    /\ call.prim.result = 0 - 1

IsWrite == call.kind = "record" /\ call.prim.op = "write_file"

\* C9: every byte of the payload of a write_file record handled at position
\* s with instance count n is (s div n) mod 256; for n = 1 the positions
\* 0,1,2,3 give 0,1,2,3, for n = 2 the positions 0,1 give 0 and 2,3 give 1.
C9_FillValue ==
    IsWrite =>
        \A k \in DOMAIN call.prim.data :
            /\ call.prim.data[k] = (call.at_seq \div n_fs) % 256
            /\ (n_fs = 1 /\ call.at_seq \in 0 .. 3) =>
                  call.prim.data[k] = call.at_seq
            /\ (n_fs = 2 /\ call.at_seq \in {0, 1}) => call.prim.data[k] = 0
            /\ (n_fs = 2 /\ call.at_seq \in {2, 3}) => call.prim.data[k] = 1

\* a write at position 259 for one instance: the fill value 259 as a byte
C9_Witness ==
    /\ IsWrite
    /\ n_fs = 1
    /\ call.at_seq = 259
    /\ Len(call.prim.data) = 4096
    /\ call.prim.data[4096] = 3

\* the record of the scenario, handled at position 7 for one instance
ScenarioWrite ==
    /\ IsWrite
    /\ line = LineWriteScenario
    /\ call.at_seq = 7
    /\ n_fs = 1

\* 4096 bytes, all 7, for /d-01/f-00
ScenarioPayload ==
    /\ call.prim.path = PathD01F00
    /\ call.prim.length = 4096
    /\ Len(call.prim.data) = 4096
    /\ \A k \in 1 .. 4096 : call.prim.data[k] = 7

\* C10 as stated: the scenario record writes its payload at file offset 0.
C10_ScenarioOffsetZero ==
    ScenarioWrite => (ScenarioPayload /\ call.prim.offset = 0)

\* C10 amended: the scenario record writes 4096 bytes, all 7, to /d-01/f-00
\* at file offset 4096: the handler takes the offset from field 4 and the
\* length from field 5 of the record (the name being field 0) and does not
\* look at field 3; so "write_file, /d-01/f-00, 02, 0, 3, 2" writes 2 bytes
\* at offset 3.
C10_ScenarioOffsetField4 ==
    /\ ScenarioWrite => (ScenarioPayload /\ call.prim.offset = 4096)
    /\ (IsWrite /\ line = LineWriteSmall) =>
          (call.prim.offset = 3 /\ call.prim.length = 2
             /\ Len(call.prim.data) = 2)

\* the scenario record was written in full
C10_Witness ==
    /\ ScenarioWrite
    /\ call.prim.result = 4096

\* the record read last names none of the 13 operations
NameUnrecognized ==
    /\ ~VectorGetIsNull(argvec, 0)
    /\ \A k \in 1 .. Len(OpNames) : VectorGet(argvec, 0) # OpNames[k]

\* C11: a record whose first field is not exactly one of the 13 operation
\* names (a proper prefix of a name, the last line of a log without a
\* newline at its end included) invokes no handler and no primitive: the
\* process is not killed in a handler, the record is reported as
\* unrecognized, and the driver unmounts, has counted the record and is on
\* its way to the next one.
C11_UnrecognizedSkipped ==
    NameUnrecognized =>
        /\ pc # "killed"
        /\ call.kind \in {"none", "unrecognized"}
        /\ BetweenRecords => (call.kind = "unrecognized" /\ seq = lines_read)

\* the primitive of the record read last was invoked and failed
FailedPrimitive == call.kind = "record" /\ call.prim.result < 0

\* C12: the failure of a dispatched primitive never ends the replay.  After
\* a failed primitive the process is not killed, the record has been
\* counted, and the process exits only from a failed strict unmount or at
\* the end of the log; the step that follows the handler is the same
\* whatever the primitive returned (seq++, then unmount_all_strict(), which
\* returns to the release of the record), and the release is followed by the
\* next getline.
C12_FailureNotFatal ==
    /\ [](FailedPrimitive =>
            /\ signal = "none"
            /\ seq = call.at_seq + 1
            /\ pc \in {"umount_loop", "umount_end", "rec_free", "getline",
                       "exit"}
            /\ pc = "exit" => (exit_status = 0 \/ StrictExit))
    /\ [][(pc = "dispatch" /\ call'.kind = "record") =>
            (/\ pc' = "umount_loop"
             /\ strict'
             /\ ret_to' = "rec_free"
             /\ seq' = seq + 1)]_vars
    /\ [][(pc = "rec_free" /\ call.kind = "record") => pc' = "getline"]_vars

\* the unlink of the first record failed, the filesystem is unmounted again
\* and the next line of the log is due
C12_Witness ==
    /\ FailedPrimitive
    /\ call.prim.op = "unlink"
    /\ call.at_seq = 0
    /\ pc = "getline"
    /\ mounts = 0
    /\ ~eof_next

\* records with a recognized name and a numeric field that is no number
UnparseableLines == {LineCreateBadMode, LineWriteBadNum}

\* records with a recognized name and a numeric field beyond the range of
\* its type
OverflowLines == {LineWriteLongMax, LineWriteULongMax}

\* records with a recognized name and fewer fields than the handler reads
ShortLines == {LineWriteShort, LineMkdirShort}

\* C13: a malformed record with a recognized name (too few fields, or a
\* numeric field that is no number or that overflows) ends the replay in its
\* handler, and no primitive is invoked for it.
C13_MalformedRejected ==
    (line \in UnparseableLines \cup OverflowLines \cup ShortLines) =>
        /\ call.kind # "record"
        /\ pc \in {"dispatch", "killed"}

\* C14: the process ends with exit status 0 only when getline found the log
\* at its end (every line read has been handled and counted) with the
\* filesystem unmounted by a strict unmount_all that succeeded; a log that
\* cannot be opened, a failed mount, a failed strict unmount and a failed
\* bootstrap mkdir_p each end the process with status 1, and nothing is
\* done after the process has ended.
C14_ExitStatus ==
    /\ [](pc = "exit" =>
            /\ exit_status \in {0, 1}
            /\ exit_status = 0 =>
                  /\ mounts = 0
                  /\ seq = lines_read
                  /\ mount_count = lines_read + 1
                  /\ umount_count = mount_count
                  /\ pre = NumElements
                  /\ ret = 0
                  /\ ~FailureAtEnd
            /\ mount_calls = 0 => (exit_status = 1 /\ lines_read = 0)
            /\ mount_calls > mount_count => exit_status = 1)
    /\ []((call.kind = "bootstrap" /\ call.prim.result < 0) =>
            (pc = "exit" /\ exit_status = 1 /\ lines_read = 0))
    /\ [][(pc = "umount_end" /\ StrictExit) =>
            (pc' = "exit" /\ exit_status' = 1)]_vars
    /\ [][exit_status' = 0 => pc = "getline"]_vars
    /\ [][pc # "exit"]_vars

\* the log held two lines, the second one without a newline at its end,
\* and the process ended with status 0
C14_Witness ==
    /\ pc = "exit"
    /\ exit_status = 0
    /\ lines_read = 2
    /\ eof_next

(***************************************************************************)
(* extract_fields on its own: any short line over delimiters and other     *)
(* characters, and the lines of the catalogue.                             *)
(***************************************************************************)
FieldAlphabet == {",", " ", "a", "/"}

FieldLines ==
    UNION {[1 .. n -> FieldAlphabet] : n \in 0 .. MaxLineLen} \cup HandlerLines

InitFields ==
    /\ InitLocals
    /\ InitFs
    /\ pc = "tokenize"
    /\ mounts = 0
    /\ seq = 0
    /\ n_fs = 1
    /\ line \in FieldLines
    /\ len = Len(line) + 1
    /\ argvec = <<>>
    /\ strict = FALSE
    /\ retry_limit = 0
    /\ ret_to = "none"

\* extract_fields(&argvec, line, ", ")
Tokenize ==
    /\ pc = "tokenize"
    /\ argvec' = extract_fields(line, CommaSpace)
    /\ pc' = "tokenized"
    /\ UNCHANGED <<procVars, mountVars, driverVars, line, len, eof_next,
                   lines_read, call, unmountVars>>
    /\ UNCHANGED <<fsVars, genVars>>

FieldsNext == Tokenize

SpecFields == InitFields /\ [][FieldsNext]_vars

\* the positions where a maximal run of non-delimiters starts, and ends
RunStarts(s) ==
    {p \in 1 .. Len(s) :
        s[p] \notin CommaSpace /\ (p = 1 \/ s[p - 1] \in CommaSpace)}
RunEnds(s) ==
    {p \in 1 .. Len(s) :
        s[p] \notin CommaSpace /\ (p = Len(s) \/ s[p + 1] \in CommaSpace)}

\* the k-th smallest member of a set of numbers
Nth(S, k) == CHOOSE p \in S : Cardinality({q \in S : q < p}) = k - 1

\* the maximal runs of non-delimiters of s, from left to right
MaximalRuns(s) ==
    [k \in 1 .. Cardinality(RunStarts(s)) |->
        SubSeq(s, Nth(RunStarts(s), k), Nth(RunEnds(s), k))]

\* C15: the fields extract_fields produces for a line are exactly the
\* maximal non-empty runs of characters other than comma and space, from
\* left to right: no field is empty, a line of delimiters only (or an empty
\* line) has no fields, and "create_file, /d-01/f-00, 0100, 0644" has the
\* fields create_file, /d-01/f-00, 0100, 0644.
C15_FieldsAreMaximalRuns ==
    pc = "tokenized" =>
        /\ argvec = MaximalRuns(line)
        /\ \A k \in 1 .. Len(argvec) :
              /\ argvec[k] # <<>>
              /\ \A p \in 1 .. Len(argvec[k]) : argvec[k][p] \notin CommaSpace
        /\ (\A p \in 1 .. Len(line) : line[p] \in CommaSpace) => argvec = <<>>
        /\ line = LineCreate =>
              argvec = <<NameCreateFile, PathD01F00, <<"0", "1", "0", "0">>,
                         <<"0", "6", "4", "4">>>>

\* a line with a leading delimiter, two delimiters in a row and a trailing
\* one gave two fields
C15_Witness ==
    /\ pc = "tokenized"
    /\ line = <<",", "a", ",", " ", "/", " ">>
    /\ argvec = <<<<"a">>, <<"/">>>>

(***************************************************************************)
(* mkdir_p on its own: any path of up to MaxDepth segments, on a           *)
(* filesystem where some of the first segments exist already.              *)
(***************************************************************************)
Segments == {<<"d", "1">>, <<"f", "0">>, <<"x">>}

RECURSIVE PathsOfDepth(_)
PathsOfDepth(n) ==
    IF n = 0 THEN {<<>>}
    ELSE {p \o <<"/">> \o s : p \in PathsOfDepth(n - 1), s \in Segments}

MkdirPaths == UNION {PathsOfDepth(n) : n \in 1 .. MaxDepth}

InitMkdirP ==
    /\ InitLocals
    /\ pc = "mkdir_p"
    /\ mounts = 1
    /\ seq = 0
    /\ n_fs = 1
    /\ line \in MkdirPaths
    /\ len = 0
    /\ argvec = <<>>
    /\ strict = FALSE
    /\ retry_limit = 0
    /\ ret_to = "none"
    /\ dirs \in SUBSET {<<"/", "d", "1">>, <<"/", "x">>}
    /\ files \in SUBSET {<<"/", "f", "0">>}
    /\ before = [dirs |-> dirs, files |-> files]

\* ret = mkdir_p(line, 0755, 0644)
MkdirP ==
    /\ pc = "mkdir_p"
    /\ \E o \in mkdir_p(line, dirs, files) :
          /\ call' = Invocation("mkdir_p",
                         [op |-> "mkdir_p", path |-> line, result |-> o.ret])
          /\ dirs' = o.dirs
          /\ files' = o.files
          /\ errno' = o.errno
    /\ pc' = "mkdir_p_done"
    /\ UNCHANGED <<procVars, mountVars, driverVars, line, len, argvec,
                   eof_next, lines_read, strict, has_failure, retry_limit,
                   num_retries, ret, ret_to, attempts, n_other, sleeps,
                   before, run, genVars>>

MkdirPNext == MkdirP

SpecMkdirP == InitMkdirP /\ [][MkdirPNext]_vars

\* the first character of the final segment of a path
FinalLetter(path) == CharAt(path, LastSlash(path) + 1)

\* mkdir_p returned 0 for a path that did not exist before the call
MkdirPMadeTerminal ==
    /\ pc = "mkdir_p_done"
    /\ call.prim.result = 0
    /\ line \notin before.dirs \cup before.files

\* C16: after mkdir_p succeeded on a path that did not exist, the path is a
\* regular file if and only if its final segment begins with 'f', a
\* directory if and only if its final segment begins with 'd', and does not
\* exist otherwise: the first letters of the earlier segments do not
\* matter.
C16_TerminalByFinalSegment ==
    MkdirPMadeTerminal =>
        /\ line \in files <=> FinalLetter(line) = "f"
        /\ line \in dirs <=> FinalLetter(line) = "d"

(***************************************************************************)
(* The bootstrap loop run twice over the same filesystem: the second run   *)
(* is the loop of a second start of the program.  The first run starts on  *)
(* any filesystem in which some of the bootstrap's nodes exist already, as *)
(* directories or as files.                                                *)
(***************************************************************************)
BootstrapNodes ==
    {basepath \o PathD01, basepath \o SubSeq(PathD00D01, 1, 5),
     basepath \o PathD01F00, basepath \o PathD00D01, basepath \o PathD01D01}

\* the filesystems the first run can find
BootstrapFs ==
    {t \in [dirs : SUBSET BootstrapNodes, files : SUBSET BootstrapNodes] :
        /\ t.dirs \cap t.files = {}
        /\ \A n \in t.dirs \cup t.files :
              ParentOf(n) \in t.dirs \cup BaseDirs}

InitBootstrap ==
    /\ InitLocals
    /\ pc = "bootstrap"
    /\ mounts = 1
    /\ seq = 0
    /\ n_fs = 1
    /\ line = <<>>
    /\ len = 0
    /\ argvec = <<>>
    /\ strict = FALSE
    /\ retry_limit = 0
    /\ ret_to = "none"
    /\ \E t \in BootstrapFs :
          /\ dirs = t.dirs \cup BaseDirs
          /\ files = t.files
    /\ before = [dirs |-> dirs, files |-> files]

\* the bootstrap loop ended; the program is started again and is at its
\* bootstrap loop, with i = 0 and pre = 0
BootstrapAgain ==
    /\ pc = "bootstrap"
    /\ i >= NumElements
    /\ run = 1
    /\ run' = 2
    /\ i' = 0
    /\ pre' = 0
    /\ before' = [dirs |-> dirs, files |-> files]
    /\ call' = NoCall
    /\ errno' = "0"
    /\ UNCHANGED <<pc, procVars, mountVars, seq, n_fs, line, len, argvec,
                   eof_next, lines_read, strict, has_failure, retry_limit,
                   num_retries, ret, ret_to, attempts, n_other, sleeps,
                   dirs, files, genVars>>

BootstrapNext ==
    \/ BootstrapStep
    \/ BootstrapFail
    \/ BootstrapAgain

SpecBootstrap == InitBootstrap /\ [][BootstrapNext]_vars

\* C17: the bootstrap is idempotent: in a second run of the bootstrap loop
\* on the filesystem a first run left after all four mkdir_p calls returned
\* 0, every mkdir_p returns 0 (the run does not exit) and the sets of
\* directories and files stay as the first run left them.
C17_BootstrapIdempotent ==
    run = 2 =>
        /\ pc # "exit"
        /\ call.kind = "bootstrap" => call.prim.result = 0
        /\ dirs = before.dirs
        /\ files = before.files

\* the second run is over, on the filesystem a first run made from nothing
C17_Witness ==
    /\ run = 2
    /\ i = NumElements
    /\ call.kind = "bootstrap"
    /\ call.prim.path = basepath \o PathD01D01
    /\ files = {basepath \o PathD01F00}
    /\ dirs = BaseDirs \cup (BootstrapNodes \ files)

\* unmount_all_strict() for a record is running or has just ended the process
InRecordUnmount ==
    /\ ret_to = "rec_free"
    /\ pc \in {"umount_loop", "umount_end", "exit"}
    /\ exit_status # 0
    /\ mount_calls = mount_count

FillTypes == {"PATTERN", "ONES", "BYTE_REPEAT", "RANDOM_EACH_BYTE"}

\* values of the value argument, and of rand()
FillValues == {7, ByteRange + 1}

InitGenerate ==
    /\ InitLocals
    /\ InitFs
    /\ pc = "generate"
    /\ mounts = 1
    /\ seq = 0
    /\ n_fs = 1
    /\ line = <<>>
    /\ len = 0
    /\ argvec = <<>>
    /\ strict = FALSE
    /\ retry_limit = 0
    /\ ret_to = "none"

\* generate_data is entered with a buffer of length bytes
GenerateCall ==
    /\ pc = "generate"
    /\ gen = NoGen
    /\ \E type \in FillTypes, length \in 0 .. MaxGenLen,
          offset \in 0 .. MaxGenOffset, value \in FillValues :
          gen' = [type |-> type, length |-> length, offset |-> offset,
                  value |-> value, written |-> <<>>]
    /\ pc' = "generating"
    /\ UNCHANGED <<procVars, mountVars, driverVars, recordVars, unmountVars,
                   fsVars>>

\* the bytes are stored
Stores ==
    GenerateWrites(gen.length, gen.offset, gen.type, gen.value)

\* some byte is stored past the end of the buffer
Overrun == \E k \in DOMAIN Stores : k >= gen.length

\* generate_data stored its bytes and returned
GenerateReturn ==
    /\ pc = "generating"
    /\ gen' = [gen EXCEPT !.written = Stores]
    /\ pc' = "generated"
    /\ UNCHANGED <<procVars, mountVars, driverVars, recordVars, unmountVars,
                   fsVars>>

\* generate_data stored past the end of the buffer and the process was
\* killed for it
GenerateKilled ==
    /\ pc = "generating"
    /\ Overrun
    /\ gen' = [gen EXCEPT !.written = Stores]
    /\ Killed("SIGSEGV")
    /\ UNCHANGED <<mountVars, driverVars, recordVars, unmountVars, fsVars>>

GenerateNext ==
    \/ GenerateCall
    \/ GenerateReturn
    \/ GenerateKilled

SpecGenerate == InitGenerate /\ [][GenerateNext]_vars

\* C19: under PATTERN, generate_data stores only at indices 0 .. len - 1 of
\* the buffer, for every len and offset: neither the zero bytes at the
\* front nor the ints after them reach index len or beyond.
C19_PatternInBounds ==
    (gen.type = "PATTERN" /\ pc # "generating") =>
        /\ pc = "generated"
        /\ \A k \in DOMAIN gen.written : k \in 0 .. gen.length - 1

\* C20: a strict unmount_all ends the process only while the filesystem is
\* still mounted: when the last umount2 of the call returned 0 the call
\* returns to the driver, whatever the attempts before it reported.
C20_ExitOnlyWhileMounted ==
    (strict /\ UnmountAllOver) =>
        /\ pc = "exit" => (ret # 0 /\ mounts > 0)
        /\ ret = 0 => pc = "caller"

\* the process has ended: exit(), return from main, or a fatal signal
Terminated == pc \in {"exit", "killed"}

\* C21: the process never ends while the filesystem is mounted, unless what
\* ended it is a strict unmount_all that failed: a failed bootstrap mkdir_p,
\* a failed assert of a handler and the end of the log are all preceded by
\* an unmount.
C21_NoExitWhileMounted ==
    (Terminated /\ mounts > 0) =>
        /\ pc = "exit"
        /\ exit_status = 1
        /\ StrictExit

====
